---- MODULE Spec2Model ----
(***************************************************************************)
(* Model of the navigation state engine of fe-rs                           *)
(* (src/src/components/home.rs): the Home component's State (tabs, current *)
(* tab index), its key handler, its draw function and the settings file.   *)
(*                                                                         *)
(* Conventions.                                                            *)
(*  - Indices (curr_index, curr_tab_index) are 0-based as in the source;   *)
(*    a TLA+ sequence is indexed with index + 1.                           *)
(*  - Option<T> is a sequence of length 0 (None) or 1 (Some).              *)
(*  - A path string is the sequence of its components below the root       *)
(*    "\\" (the target is Windows: the default path is "\\" and the        *)
(*    launchers are only implemented there), so "\\" is << >> and          *)
(*    "\\a\\c" is <<"a", "c">>.                                             *)
(*  - A panic (index out of bounds, arithmetic overflow in a build with    *)
(*    overflow checks) kills the process: panicked becomes TRUE and only   *)
(*    a new process (Home::new) can follow.                                *)
(***************************************************************************)
EXTENDS Integers, Sequences, FiniteSets, TLC

VARIABLES
    tabs,             \* State.tabs : Vec<Tab>
    curr_tab_index,   \* State.curr_tab_index : usize
    settings,         \* content of the file "fe-rs-settings.json"
    panicked,         \* the process died in a panic (its State is gone with it)
    launched,         \* file the last step handed to run_launch_cmd (Option)
    back_from         \* history variable (Option): the cwd a NavigateBack left and whether
                      \* the very next step was a NavigateForward

vars == <<tabs, curr_tab_index, settings, panicked, launched, back_from>>

(***************************************************************************)
(* Bounds of the model                                                     *)
(***************************************************************************)
MaxWds == 3     \* WorkingDirectory values the State holds (cwd and history entries of all
                \* tabs): TabNew and the pushes of a new history entry stop here
MaxIndex == 2   \* indices (a curr_index above len, curr_tab_index on an empty tabs) stop here

(***************************************************************************)
(* usize                                                                   *)
(***************************************************************************)
\* Stand-in for usize::MAX (2^64 - 1): the largest integer of the model checker.
\* It is only ever compared with indices, which are far smaller.
USIZE_MAX == 2147483647

Min(a, b) == IF a <= b THEN a ELSE b

\* An overflowing usize subtraction panics in a build with overflow checks (debug) and
\* wraps in one without (release): both outcomes are explored wherever one can overflow.
OverflowChecks == BOOLEAN

\* n - 1 on usize in a build without overflow checks
WrappingSub1(n) == IF n = 0 THEN USIZE_MAX ELSE n - 1

(***************************************************************************)
(* The file system the browser looks at (external):                        *)
(*   \      b (file), a (directory)                                        *)
(*   \a     c (file); reading the directory may be denied                  *)
(***************************************************************************)
Root == << >>

FsDirs == {Root, <<"a">>}
FsFiles == {<<"b">>, <<"a", "c">>}
FsMayDeny == {<<"a">>}

\* Path::is_dir
IsDir(p) == p \in FsDirs

\* Path::parent for an absolute path: None at the root
Parent(p) == IF p = Root THEN << >> ELSE <<SubSeq(p, 1, Len(p) - 1)>>

\* The entries read_dir yields, in file-system order
FsEntries(p) ==
    IF p = Root THEN << <<"b">>, <<"a">> >>
    ELSE IF p = <<"a">> THEN << <<"a", "c">> >>
    ELSE << >>

ReadOk(p) == [ok |-> TRUE, entries |-> FsEntries(p)]
ReadErr == [ok |-> FALSE, entries |-> << >>]

\* Path::read_dir : the Results it can return for p; ok = FALSE is Err.  A path that is
\* not a readable directory fails; a directory of FsMayDeny fails or not.
ReadDir(p) ==
    IF p \notin FsDirs THEN {ReadErr}
    ELSE IF p \in FsMayDeny THEN {ReadOk(p), ReadErr}
    ELSE {ReadOk(p)}

(***************************************************************************)
(* Data model                                                              *)
(***************************************************************************)
DirEntry(p) == [path |-> p, is_dir |-> IsDir(p), size |-> << >>]

WorkingDirectory(p, ch, i) == [path |-> p, children |-> ch, curr_index |-> i]

State(t, i) == [tabs |-> t, curr_tab_index |-> i]

\* Tab { cwd: "\\", ..Tab::default() } of load_settings
DefaultTab ==
    [cwd |-> WorkingDirectory(Root, << >>, 0),
     history_backward |-> << >>,
     history_forward |-> << >>,
     selected |-> FALSE]

DefaultState == State(<<DefaultTab>>, 0)

\* Vec::remove(i), i 0-based and in range
Remove(s, i) == SubSeq(s, 1, i) \o SubSeq(s, i + 2, Len(s))

\* Vec::pop: the vector without its last element
Front(s) == SubSeq(s, 1, Len(s) - 1)

Last(s) == s[Len(s)]

\* self.state.tabs[self.state.curr_tab_index] is in bounds
TabInRange(st) == st.curr_tab_index < Len(st.tabs)

CurTab(st) == st.tabs[st.curr_tab_index + 1]

\* Mutation of WithTab: the tab is written at index 0 instead of curr_tab_index
WithTab_First(st, tab) == [st EXCEPT !.tabs[1] = tab]

WithTab(st, tab) == [st EXCEPT !.tabs[st.curr_tab_index + 1] = tab]


(***************************************************************************)
(* Settings file: serde_json over the derived Serialize / Deserialize      *)
(* A JSON value is a tagged record; the file holds one value, or is        *)
(* missing, or holds text that does not parse.                             *)
(***************************************************************************)
JNull == [t |-> "null"]
JBool(b) == [t |-> "bool", v |-> b]
JNum(n) == [t |-> "num", v |-> n]
JStr(s) == [t |-> "str", v |-> s]
JArr(a) == [t |-> "arr", v |-> a]
JObj(o) == [t |-> "obj", v |-> o]

NoFile == [t |-> "nofile"]
Garbage == [t |-> "garbage"]

\* Option<usize>: None is null
SerSize(o) == IF o = << >> THEN JNull ELSE JNum(o[1])

SerDirEntry(e) ==
    JObj([path |-> JStr(e.path), is_dir |-> JBool(e.is_dir), size |-> SerSize(e.size)])

SerWorkingDirectory(w) ==
    JObj([path |-> JStr(w.path),
          children |-> JArr([i \in 1..Len(w.children) |-> SerDirEntry(w.children[i])]),
          curr_index |-> JNum(w.curr_index)])

SerHistory(h) == JArr([i \in 1..Len(h) |-> SerWorkingDirectory(h[i])])

\* Mutation of SerTab: history_forward is written as an empty array
SerTab_SkipsForward(tab) ==
    JObj([cwd |-> SerWorkingDirectory(tab.cwd),
          history_backward |-> SerHistory(tab.history_backward),
          history_forward |-> JArr(<< >>),
          selected |-> JBool(tab.selected)])

SerTab(tab) ==
    JObj([cwd |-> SerWorkingDirectory(tab.cwd),
          history_backward |-> SerHistory(tab.history_backward),
          history_forward |-> SerHistory(tab.history_forward),
          selected |-> JBool(tab.selected)])

\* serde_json::to_string(state)
Serialize(st) ==
    JObj([tabs |-> JArr([i \in 1..Len(st.tabs) |-> SerTab(st.tabs[i])]),
          curr_tab_index |-> JNum(st.curr_tab_index)])

\* A struct is read from an object that has every field of the struct
HasFields(j, fields) == j.t = "obj" /\ fields \subseteq DOMAIN j.v

IsNum(j) == j.t = "num" /\ j.v >= 0
IsStr(j) == j.t = "str"
IsBool(j) == j.t = "bool"

IsDirEntry(j) ==
    /\ HasFields(j, {"path", "is_dir"})
    /\ IsStr(j.v.path)
    /\ IsBool(j.v.is_dir)
    /\ ("size" \in DOMAIN j.v => j.v.size.t \in {"null", "num"})

IsWorkingDirectory(j) ==
    /\ HasFields(j, {"path", "children", "curr_index"})
    /\ IsStr(j.v.path)
    /\ j.v.children.t = "arr"
    /\ \A i \in 1..Len(j.v.children.v) : IsDirEntry(j.v.children.v[i])
    /\ IsNum(j.v.curr_index)

IsHistory(j) == j.t = "arr" /\ \A i \in 1..Len(j.v) : IsWorkingDirectory(j.v[i])

IsTab(j) ==
    /\ HasFields(j, {"cwd", "history_backward", "history_forward", "selected"})
    /\ IsWorkingDirectory(j.v.cwd)
    /\ IsHistory(j.v.history_backward)
    /\ IsHistory(j.v.history_forward)
    /\ IsBool(j.v.selected)

IsState(j) ==
    /\ HasFields(j, {"tabs", "curr_tab_index"})
    /\ j.v.tabs.t = "arr"
    /\ \A i \in 1..Len(j.v.tabs.v) : IsTab(j.v.tabs.v[i])
    /\ IsNum(j.v.curr_tab_index)

DeSize(j) == IF j.t = "num" THEN <<j.v>> ELSE << >>

DeDirEntry(j) ==
    [path |-> j.v.path.v,
     is_dir |-> j.v.is_dir.v,
     size |-> IF "size" \in DOMAIN j.v THEN DeSize(j.v.size) ELSE << >>]

DeWorkingDirectory(j) ==
    [path |-> j.v.path.v,
     children |-> [i \in 1..Len(j.v.children.v) |-> DeDirEntry(j.v.children.v[i])],
     curr_index |-> j.v.curr_index.v]

DeHistory(j) == [i \in 1..Len(j.v) |-> DeWorkingDirectory(j.v[i])]

DeTab(j) ==
    [cwd |-> DeWorkingDirectory(j.v.cwd),
     history_backward |-> DeHistory(j.v.history_backward),
     history_forward |-> DeHistory(j.v.history_forward),
     selected |-> j.v.selected.v]

\* serde_json::from_str::<State> : Result<State>; ok = FALSE is Err
Deserialize(j) ==
    IF IsState(j)
    THEN [ok |-> TRUE,
          state |-> State([i \in 1..Len(j.v.tabs.v) |-> DeTab(j.v.tabs.v[i])],
                          j.v.curr_tab_index.v)]
    ELSE [ok |-> FALSE, state |-> DefaultState]

\* Mutation of LoadSettings: the fallback is State::default(), which has no tab
LoadSettings_NoTab(file) ==
    IF file.t \in {"nofile", "garbage"} THEN State(<< >>, 0)
    ELSE IF Deserialize(file).ok THEN Deserialize(file).state
    ELSE State(<< >>, 0)

\* Home::load_settings: the parsed file, or the default state
LoadSettings(file) ==
    IF file.t \in {"nofile", "garbage"} THEN DefaultState
    ELSE IF Deserialize(file).ok THEN Deserialize(file).state
    ELSE DefaultState

\* Home::save_settings: the new content of the file
SaveSettings(st) == Serialize(st)


(***************************************************************************)
(* Outcome of one handler run on a State: the State it leaves, whether it  *)
(* panicked on the way, the State it passed to save_settings (Option) and  *)
(* the command it spawned (Option).                                        *)
(***************************************************************************)
Outcome(st, pan, sv, cmd) == [state |-> st, panic |-> pan, saved |-> sv, launch |-> cmd]

Done(st) == Outcome(st, FALSE, << >>, << >>)
DoneSaved(st) == Outcome(st, FALSE, <<st>>, << >>)
Panic(st) == Outcome(st, TRUE, << >>, << >>)

\* std::process::Command spawned by the run_*_cmd functions
LaunchCmd(p) == [cmd |-> "start", path |-> p]
ExplorerCmd(p) == [cmd |-> "explorer", path |-> p]
ShellCmd(p) == [cmd |-> "powershell", path |-> p]

(***************************************************************************)
(* Home::handle_key_events, one operator per match arm                     *)
(***************************************************************************)
\* KeyCode::Char('j') | KeyCode::Down
MoveDown(st) ==
    IF ~TabInRange(st) THEN Panic(st)
    ELSE LET cwd == CurTab(st).cwd IN
         IF cwd.curr_index # Len(cwd.children)
         THEN Done(WithTab(st, [CurTab(st) EXCEPT !.cwd.curr_index = cwd.curr_index + 1]))
         ELSE Done(st)

\* KeyCode::Char('k') | KeyCode::Up, without Alt
MoveUp(st) ==
    IF ~TabInRange(st) THEN Panic(st)
    ELSE LET cwd == CurTab(st).cwd IN
         IF 0 # cwd.curr_index
         THEN Done(WithTab(st, [CurTab(st) EXCEPT !.cwd.curr_index = cwd.curr_index - 1]))
         ELSE Done(st)

\* Mutation of ParentDirectory: the cursor is reset with the children
ParentDirectory_ResetsCursor(st) ==
    IF ~TabInRange(st) THEN Panic(st)
    ELSE LET tab == CurTab(st)
             parent == Parent(tab.cwd.path)
         IN  IF parent # << >>
             THEN DoneSaved(WithTab(st,
                     [tab EXCEPT !.history_backward = Append(tab.history_backward, tab.cwd),
                                 !.cwd.path = parent[1],
                                 !.cwd.children = << >>,
                                 !.cwd.curr_index = 0]))
             ELSE Done(st)

\* KeyCode::Char('k') | KeyCode::Up, with Alt
ParentDirectory(st) ==
    IF ~TabInRange(st) THEN Panic(st)
    ELSE LET tab == CurTab(st)
             parent == Parent(tab.cwd.path)
         IN  IF parent # << >>
             THEN DoneSaved(WithTab(st,
                     [tab EXCEPT !.history_backward = Append(tab.history_backward, tab.cwd),
                                 !.cwd.path = parent[1],
                                 !.cwd.children = << >>]))
             ELSE Done(st)

\* KeyCode::Enter
Activate(st) ==
    IF ~TabInRange(st) THEN Panic(st)
    ELSE Done(WithTab(st, [CurTab(st) EXCEPT !.selected = TRUE]))

\* Mutation of NavigateBack: the cwd it leaves is not pushed onto history_forward
NavigateBack_NoForwardPush(st) ==
    IF ~TabInRange(st) THEN Panic(st)
    ELSE LET tab == CurTab(st) IN
         IF tab.history_backward # << >>
         THEN DoneSaved(WithTab(st,
                 [tab EXCEPT !.history_backward = Front(tab.history_backward),
                             !.cwd = Last(tab.history_backward)]))
         ELSE DoneSaved(st)

\* KeyCode::Left | KeyCode::Char('h'), with Alt
NavigateBack(st) ==
    IF ~TabInRange(st) THEN Panic(st)
    ELSE LET tab == CurTab(st) IN
         IF tab.history_backward # << >>
         THEN DoneSaved(WithTab(st,
                 [tab EXCEPT !.history_backward = Front(tab.history_backward),
                             !.history_forward = Append(tab.history_forward, tab.cwd),
                             !.cwd = Last(tab.history_backward)]))
         ELSE DoneSaved(st)

\* KeyCode::Left | KeyCode::Char('h'), without Alt
TabPrev(st) ==
    IF st.curr_tab_index # 0
    THEN DoneSaved([st EXCEPT !.curr_tab_index = st.curr_tab_index - 1])
    ELSE DoneSaved(st)

\* KeyCode::Right | KeyCode::Char('l'), with Alt
NavigateForward(st) ==
    IF ~TabInRange(st) THEN Panic(st)
    ELSE LET tab == CurTab(st) IN
         IF tab.history_forward # << >>
         THEN DoneSaved(WithTab(st,
                 [tab EXCEPT !.history_forward = Front(tab.history_forward),
                             !.history_backward = Append(tab.history_backward, tab.cwd),
                             !.cwd = Last(tab.history_forward)]))
         ELSE DoneSaved(st)

\* KeyCode::Right | KeyCode::Char('l'), without Alt; tabs.len() - 1 overflows on an
\* empty tabs: a panic with overflow checks, usize::MAX without
TabNext(st, checks) ==
    IF Len(st.tabs) = 0 /\ checks THEN Panic(st)
    ELSE IF st.curr_tab_index # WrappingSub1(Len(st.tabs))
         THEN DoneSaved([st EXCEPT !.curr_tab_index = st.curr_tab_index + 1])
         ELSE DoneSaved(st)

\* KeyCode::Char('e') : run_explorer_cmd
OpenInSystemExplorer(st) ==
    IF ~TabInRange(st) THEN Panic(st)
    ELSE Outcome(st, FALSE, << >>, <<ExplorerCmd(CurTab(st).cwd.path)>>)

\* Mutation of OpenShellHere: the arm also marks the entry at the cursor as selected
OpenShellHere_Selects(st) ==
    IF ~TabInRange(st) THEN Panic(st)
    ELSE Outcome(WithTab(st, [CurTab(st) EXCEPT !.selected = TRUE]), FALSE, << >>,
                 <<ShellCmd(CurTab(st).cwd.path)>>)

\* KeyCode::Char('s') : run_shell_cmd
OpenShellHere(st) ==
    IF ~TabInRange(st) THEN Panic(st)
    ELSE Outcome(st, FALSE, << >>, <<ShellCmd(CurTab(st).cwd.path)>>)

\* Mutation of TabNew: the new tab opens at the same cwd with empty history stacks
TabNew_FreshHistory(st) ==
    IF ~TabInRange(st) THEN Panic(st)
    ELSE DoneSaved([st EXCEPT !.tabs = Append(st.tabs,
             [CurTab(st) EXCEPT !.history_backward = << >>, !.history_forward = << >>])])

\* KeyCode::Char('t')
TabNew(st) ==
    IF ~TabInRange(st) THEN Panic(st)
    ELSE DoneSaved([st EXCEPT !.tabs = Append(st.tabs, CurTab(st))])

\* Mutation of TabClose: curr_tab_index is left alone after the removal
TabClose_KeepsIndex(st) ==
    IF ~TabInRange(st) THEN Panic(st)
    ELSE Done(State(Remove(st.tabs, st.curr_tab_index), st.curr_tab_index))

\* KeyCode::Char('x') : Vec::remove panics on an index out of bounds
TabClose(st) ==
    IF ~TabInRange(st) THEN Panic(st)
    ELSE LET rest == Remove(st.tabs, st.curr_tab_index) IN
         IF st.curr_tab_index >= Len(rest) /\ st.curr_tab_index # 0
         THEN Done(State(rest, st.curr_tab_index - 1))
         ELSE Done(State(rest, st.curr_tab_index))

\* Key events: a key code and whether Alt is held
KeyCodes == {"j", "Down", "k", "Up", "Enter", "Left", "h", "Right", "l", "e", "s", "t", "x", "q"}

Keys == [code : KeyCodes, alt : BOOLEAN]

\* The logical action a key event selects (the match arms and their Alt tests)
ActionOf(key) ==
    CASE key.code \in {"j", "Down"} -> "MoveDown"
      [] key.code \in {"k", "Up"} -> IF key.alt THEN "ParentDirectory" ELSE "MoveUp"
      [] key.code = "Enter" -> "Activate"
      [] key.code \in {"Left", "h"} -> IF key.alt THEN "NavigateBack" ELSE "TabPrev"
      [] key.code \in {"Right", "l"} -> IF key.alt THEN "NavigateForward" ELSE "TabNext"
      [] key.code = "e" -> "OpenInSystemExplorer"
      [] key.code = "s" -> "OpenShellHere"
      [] key.code = "t" -> "TabNew"
      [] key.code = "x" -> "TabClose"
      [] OTHER -> "None"

\* Home::handle_key_events
HandleKeyEvents(st, key, checks) ==
    LET a == ActionOf(key) IN
    CASE a = "MoveDown" -> MoveDown(st)
      [] a = "MoveUp" -> MoveUp(st)
      [] a = "ParentDirectory" -> ParentDirectory(st)
      [] a = "Activate" -> Activate(st)
      [] a = "NavigateBack" -> NavigateBack(st)
      [] a = "TabPrev" -> TabPrev(st)
      [] a = "NavigateForward" -> NavigateForward(st)
      [] a = "TabNext" -> TabNext(st, checks)
      [] a = "OpenInSystemExplorer" -> OpenInSystemExplorer(st)
      [] a = "OpenShellHere" -> OpenShellHere(st)
      [] a = "TabNew" -> TabNew(st)
      [] a = "TabClose" -> TabClose(st)
      [] OTHER -> Done(st)

(***************************************************************************)
(* Home::draw, in the order of its statements                              *)
(***************************************************************************)
\* Mutation of ResolveActivation: a directory activation clears history_forward
ResolveActivation_ClearsForward(st) ==
    LET tab == CurTab(st)
        cleared == WithTab(st, [tab EXCEPT !.selected = FALSE])
    IN  IF ~tab.selected THEN Done(st)
        ELSE IF tab.cwd.curr_index >= Len(tab.cwd.children) THEN Panic(cleared)
        ELSE LET selected_item == tab.cwd.children[tab.cwd.curr_index + 1].path IN
             IF IsDir(selected_item)
             THEN DoneSaved(WithTab(st,
                     [tab EXCEPT !.selected = FALSE,
                                 !.history_backward = Append(tab.history_backward, tab.cwd),
                                 !.history_forward = << >>,
                                 !.cwd = WorkingDirectory(selected_item, << >>,
                                                          tab.cwd.curr_index)]))
             ELSE Outcome(cleared, FALSE, <<cleared>>, <<LaunchCmd(selected_item)>>)

\* Mutation of ResolveActivation: the new cwd of a directory activation starts at cursor 0
ResolveActivation_FreshCursor(st) ==
    LET tab == CurTab(st)
        cleared == WithTab(st, [tab EXCEPT !.selected = FALSE])
    IN  IF ~tab.selected THEN Done(st)
        ELSE IF tab.cwd.curr_index >= Len(tab.cwd.children) THEN Panic(cleared)
        ELSE LET selected_item == tab.cwd.children[tab.cwd.curr_index + 1].path IN
             IF IsDir(selected_item)
             THEN DoneSaved(WithTab(st,
                     [tab EXCEPT !.selected = FALSE,
                                 !.history_backward = Append(tab.history_backward, tab.cwd),
                                 !.cwd = WorkingDirectory(selected_item, << >>, 0)]))
             ELSE Outcome(cleared, FALSE, <<cleared>>, <<LaunchCmd(selected_item)>>)

\* Mutation of ResolveActivation: a file activation launches the cwd, not the entry
ResolveActivation_LaunchesCwd(st) ==
    LET tab == CurTab(st)
        cleared == WithTab(st, [tab EXCEPT !.selected = FALSE])
    IN  IF ~tab.selected THEN Done(st)
        ELSE IF tab.cwd.curr_index >= Len(tab.cwd.children) THEN Panic(cleared)
        ELSE LET selected_item == tab.cwd.children[tab.cwd.curr_index + 1].path IN
             IF IsDir(selected_item)
             THEN DoneSaved(WithTab(st,
                     [tab EXCEPT !.selected = FALSE,
                                 !.history_backward = Append(tab.history_backward, tab.cwd),
                                 !.cwd = WorkingDirectory(selected_item, << >>,
                                                          tab.cwd.curr_index)]))
             ELSE Outcome(cleared, FALSE, <<cleared>>, <<LaunchCmd(tab.cwd.path)>>)

\* Lines 258-276: the pending activation of the current tab.  The State is saved at the
\* end of the block, before the listing and the clamp below.
ResolveActivation(st) ==
    LET tab == CurTab(st)
        cleared == WithTab(st, [tab EXCEPT !.selected = FALSE])
    IN  IF ~tab.selected THEN Done(st)
        ELSE IF tab.cwd.curr_index >= Len(tab.cwd.children) THEN Panic(cleared)
        ELSE LET selected_item == tab.cwd.children[tab.cwd.curr_index + 1].path IN
             IF IsDir(selected_item)
             THEN DoneSaved(WithTab(st,
                     [tab EXCEPT !.selected = FALSE,
                                 !.history_backward = Append(tab.history_backward, tab.cwd),
                                 !.cwd = WorkingDirectory(selected_item, << >>,
                                                          tab.cwd.curr_index)]))
             ELSE Outcome(cleared, FALSE, <<cleared>>, <<LaunchCmd(selected_item)>>)

\* Mutation of ListChildren: read_dir's entries are pushed without the is_empty test
ListChildren_NoGuard(st, res) ==
    LET tab == CurTab(st)
    IN  IF res.ok
        THEN WithTab(st, [tab EXCEPT !.cwd.children =
                 tab.cwd.children \o [i \in 1..Len(res.entries) |-> DirEntry(res.entries[i])]])
        ELSE st

\* Lines 278-292: an empty children is filled from read_dir; a failed read_dir leaves it empty
ListChildren(st, res) ==
    LET tab == CurTab(st)
    IN  IF tab.cwd.children = << >> /\ res.ok
        THEN WithTab(st, [tab EXCEPT !.cwd.children =
                 [i \in 1..Len(res.entries) |-> DirEntry(res.entries[i])]])
        ELSE st

\* Lines 309-312: curr_index = min(curr_index, children.len() - 1)
ClampCursor(st, checks) ==
    LET tab == CurTab(st) IN
    IF Len(tab.cwd.children) = 0 /\ checks THEN Panic(st)
    ELSE Done(WithTab(st, [tab EXCEPT !.cwd.curr_index =
             Min(tab.cwd.curr_index, WrappingSub1(Len(tab.cwd.children)))]))

\* The path draw passes to read_dir when it lists: that of the cwd after the activation
DrawnPath(st) ==
    IF TabInRange(st) THEN CurTab(ResolveActivation(st).state).cwd.path ELSE Root

\* Home::draw, res being what read_dir returns for the directory drawn (the cwd after the
\* activation).  The widgets are not modelled; the tab titles (components().last().unwrap())
\* never panic here because every path has the root as a component.
DrawOutcome(st, res, checks) ==
    IF ~TabInRange(st) THEN Panic(st)
    ELSE LET act == ResolveActivation(st) IN
         IF act.panic THEN act
         ELSE LET clamp == ClampCursor(ListChildren(act.state, res), checks) IN
              Outcome(clamp.state, clamp.panic, act.saved, act.launch)


(***************************************************************************)
(* The state machine                                                       *)
(***************************************************************************)
Cur == State(tabs, curr_tab_index)

RECURSIVE NumWds(_)
\* The number of WorkingDirectory values in a sequence of tabs
NumWds(ts) ==
    IF ts = << >> THEN 0
    ELSE 1 + Len(ts[1].history_backward) + Len(ts[1].history_forward) + NumWds(Tail(ts))

\* The model stops growing the tabs, the history stacks and the indices here.  A tab
\* that has history and its copy made by 't' are admitted for as long as the two are equal.
WithinBounds(st) ==
    /\ \/ NumWds(st.tabs) <= MaxWds
       \/ /\ Len(st.tabs) = 2
          /\ st.tabs[1] = st.tabs[2]
          /\ NumWds(<<st.tabs[1]>>) < MaxWds
    /\ st.curr_tab_index <= MaxIndex
    /\ \A i \in 1..Len(st.tabs) : st.tabs[i].cwd.curr_index <= MaxIndex

\* The effect of a handler's Outcome on the process and on the settings file.  A panic
\* ends the process: what it saved before stays in the file, its State is dropped.
Apply(out) ==
    /\ WithinBounds(out.state)
    /\ tabs' = IF out.panic THEN << >> ELSE out.state.tabs
    /\ curr_tab_index' = IF out.panic THEN 0 ELSE out.state.curr_tab_index
    /\ panicked' = out.panic
    /\ settings' = IF out.saved # << >> THEN SaveSettings(out.saved[1]) ELSE settings
    /\ launched' = IF out.launch # << >> /\ out.launch[1].cmd = "start" THEN out.launch ELSE << >>

\* Home::new: a process starts on the settings file it finds
Init ==
    /\ settings \in {NoFile, Garbage}
    /\ tabs = LoadSettings(settings).tabs
    /\ curr_tab_index = LoadSettings(settings).curr_tab_index
    /\ panicked = FALSE
    /\ launched = << >>
    /\ back_from = << >>

\* The process ended (quit or panic) and the program is started again
New ==
    /\ tabs' = LoadSettings(settings).tabs
    /\ curr_tab_index' = LoadSettings(settings).curr_tab_index
    /\ panicked' = FALSE
    /\ launched' = << >>
    /\ back_from' = << >>
    /\ UNCHANGED settings

\* The builds a step has to be explored in: both where it can overflow, one otherwise
Builds(overflows) == IF overflows THEN OverflowChecks ELSE {TRUE}

\* One key event whose logical action is a
KeyEvent(a) ==
    /\ ~panicked
    /\ \E key \in Keys, checks \in Builds(a = "TabNext" /\ tabs = << >>) :
          /\ ActionOf(key) = a
          /\ Apply(HandleKeyEvents(Cur, key, checks))
    /\ back_from' =
          IF a = "NavigateBack" /\ TabInRange(Cur) /\ CurTab(Cur).history_backward # << >>
          THEN <<[cwd |-> CurTab(Cur).cwd, forward |-> FALSE]>>
          ELSE IF a = "NavigateForward" /\ back_from # << >> /\ ~back_from[1].forward
          THEN <<[back_from[1] EXCEPT !.forward = TRUE]>>
          ELSE << >>

KeyMoveDown == KeyEvent("MoveDown")
KeyMoveUp == KeyEvent("MoveUp")
KeyParentDirectory == KeyEvent("ParentDirectory")
KeyActivate == KeyEvent("Activate")
KeyNavigateBack == KeyEvent("NavigateBack")
KeyTabPrev == KeyEvent("TabPrev")
KeyNavigateForward == KeyEvent("NavigateForward")
KeyTabNext == KeyEvent("TabNext")
KeyOpenInSystemExplorer == KeyEvent("OpenInSystemExplorer")
KeyOpenShellHere == KeyEvent("OpenShellHere")
KeyTabNew == KeyEvent("TabNew")
KeyTabClose == KeyEvent("TabClose")
KeyOther == KeyEvent("None")

\* draw lists an empty children and then subtracts 1 from its length
DrawCanOverflow(st) ==
    /\ TabInRange(st)
    /\ ~ResolveActivation(st).panic
    /\ \E res \in ReadDir(DrawnPath(st)) :
          CurTab(ListChildren(ResolveActivation(st).state, res)).cwd.children = << >>

\* Home::draw on a Render
Draw ==
    /\ ~panicked
    /\ \E checks \in Builds(DrawCanOverflow(Cur)), res \in ReadDir(DrawnPath(Cur)) :
          Apply(DrawOutcome(Cur, res, checks))
    /\ back_from' = << >>

\* Home::update: every Action (Tick, Help, the others) leaves the State alone
Update ==
    /\ ~panicked
    /\ \E action \in {"Tick", "Help", "Render"} :
          /\ launched' = << >>
          /\ back_from' = << >>
          /\ UNCHANGED <<tabs, curr_tab_index, settings, panicked>>

Next ==
    \/ New
    \/ KeyMoveDown
    \/ KeyMoveUp
    \/ KeyParentDirectory
    \/ KeyActivate
    \/ KeyNavigateBack
    \/ KeyTabPrev
    \/ KeyNavigateForward
    \/ KeyTabNext
    \/ KeyOpenInSystemExplorer
    \/ KeyOpenShellHere
    \/ KeyTabNew
    \/ KeyTabClose
    \/ KeyOther
    \/ Draw
    \/ Update

Spec == Init /\ [][Next]_vars


(***************************************************************************)
(* Vocabulary of the properties                                            *)
(***************************************************************************)
Alive == ~panicked /\ TabInRange(Cur)

ActiveTab == CurTab(Cur)

ActiveCwd == ActiveTab.cwd

\* The State the settings file holds
Persisted == Deserialize(settings)

\* A key event of one of the actions that can change the State
MutatingKeyEvent ==
    \E a \in {"MoveDown", "MoveUp", "ParentDirectory", "Activate", "NavigateBack", "TabPrev",
              "NavigateForward", "TabNext", "TabNew", "TabClose"} : KeyEvent(a)

\* draw finds a pending activation whose entry at the cursor exists
ActivationOf(st) ==
    /\ TabInRange(st)
    /\ CurTab(st).selected
    /\ CurTab(st).cwd.curr_index < Len(CurTab(st).cwd.children)

ActivatedPath(st) == CurTab(st).cwd.children[CurTab(st).cwd.curr_index + 1].path

DirActivation(st) == ActivationOf(st) /\ IsDir(ActivatedPath(st))

FileActivation(st) == ActivationOf(st) /\ ~IsDir(ActivatedPath(st))

\* draw has an empty children in hand when it lists (none pending, or after the activation)
EmptyAtRender(st) ==
    /\ TabInRange(st)
    /\ ~ResolveActivation(st).panic
    /\ CurTab(ResolveActivation(st).state).cwd.children = << >>

(***************************************************************************)
(* C1: the tab list is never empty: every state a running process reaches  *)
(* has len(tabs) >= 1 (TabClose on the only tab keeps one tab).            *)
(***************************************************************************)
C1_TabsNeverEmpty == ~panicked => Len(tabs) >= 1

(***************************************************************************)
(* C2: whenever the active tab's children is non-empty, its cursor is a    *)
(* valid index, 0 <= cursor <= len(children) - 1, in every state, those    *)
(* between a key event and the next render included.                       *)
(***************************************************************************)
C2_CursorInRange ==
    (Alive /\ ActiveCwd.children # << >>) =>
        (0 <= ActiveCwd.curr_index /\ ActiveCwd.curr_index <= Len(ActiveCwd.children) - 1)

(***************************************************************************)
(* C3: a render that has an empty children list in hand (not yet listed,   *)
(* listing failed, no entries) does not clamp the cursor against length 0  *)
(* and does not crash: the process goes on.                                *)
(***************************************************************************)
C3_EmptyRenderNoCrash == [][(Draw /\ EmptyAtRender(Cur)) => ~panicked']_vars


(***************************************************************************)
(* C4: NavigateBack on a non-empty history_backward followed at once by    *)
(* NavigateForward leaves as cwd exactly the WorkingDirectory (path,       *)
(* children, cursor) that was the cwd before the NavigateBack.             *)
(***************************************************************************)
BackThenForward == back_from # << >> /\ back_from[1].forward

C4_BackForwardRestores == BackThenForward => (Alive /\ ActiveCwd = back_from[1].cwd)

C4_Witness ==
    /\ BackThenForward
    /\ Alive
    /\ ActiveCwd.children # << >>
    /\ ActiveCwd.curr_index > 0
    /\ ActiveTab.history_backward # << >>
    /\ ActiveTab.history_backward[Len(ActiveTab.history_backward)] # ActiveCwd

(***************************************************************************)
(* C5: every key event of a mutating action (cursor move, activation,      *)
(* back/forward, parent, tab switch, TabNew, TabClose) that changes the    *)
(* State leaves the settings file equal to the State it produced.          *)
(***************************************************************************)
C5_SavedAfterEveryMutation ==
    [][(MutatingKeyEvent /\ ~panicked' /\ Cur' # Cur) =>
          (Persisted'.ok /\ Persisted'.state = Cur')]_vars

(***************************************************************************)
(* C6: after every render no tab has an activation pending, whatever was   *)
(* done between the Activate and the render.                               *)
(***************************************************************************)
C6_NoPendingAfterRender ==
    [][(Draw /\ ~panicked') => \A i \in 1..Len(tabs') : ~tabs'[i].selected]_vars

(***************************************************************************)
(* C7: ParentDirectory on a cwd that has a parent pushes the cwd onto      *)
(* history_backward and makes cwd the parent path with empty children;     *)
(* without a parent it changes nothing.                                    *)
(*   C7_ParentResetsCursor: ... and the cursor is reset to 0 (as claimed)  *)
(*   C7_ParentKeepsCursor:  ... and the cursor is left as it was           *)
(***************************************************************************)
\* The State after ParentDirectory when the new cursor is cursor
ParentState(cursor) ==
    LET parent == Parent(ActiveCwd.path) IN
    IF parent = << >> THEN Cur
    ELSE [Cur EXCEPT !.tabs[curr_tab_index + 1] =
             [cwd |-> [path |-> parent[1], children |-> << >>, curr_index |-> cursor],
              history_backward |-> Append(ActiveTab.history_backward, ActiveCwd),
              history_forward |-> ActiveTab.history_forward,
              selected |-> ActiveTab.selected]]

C7_ParentResetsCursor ==
    [][(KeyParentDirectory /\ ~panicked') => Cur' = ParentState(0)]_vars

C7_ParentKeepsCursor ==
    [][(KeyParentDirectory /\ ~panicked') => Cur' = ParentState(ActiveCwd.curr_index)]_vars

\* A cwd left by ParentDirectory with a cursor that is not 0
C7_Witness ==
    /\ Alive
    /\ ActiveTab.history_backward # << >>
    /\ LET left == Last(ActiveTab.history_backward) IN
          /\ Parent(left.path) = <<ActiveCwd.path>>
          /\ ActiveCwd.children = << >>
          /\ ActiveCwd.curr_index = left.curr_index
          /\ ActiveCwd.curr_index > 0
          /\ Persisted.ok /\ Persisted.state = Cur

(***************************************************************************)
(* C8: a render that resolves an Activate on a directory pushes the        *)
(* outgoing cwd (path, children, cursor) onto history_backward, which      *)
(* grows by exactly one, and replaces cwd by a fresh WorkingDirectory at   *)
(* the child's path with empty children and the outgoing cursor.  The      *)
(* result of the resolution is what the render saves; the same render then *)
(* lists the new cwd and clamps its cursor.                                *)
(***************************************************************************)
C8_DirectoryActivation ==
    [][(Draw /\ DirActivation(Cur)) =>
          /\ Persisted'.ok
          /\ LET saved == CurTab(Persisted'.state) IN
                /\ saved.history_backward = Append(ActiveTab.history_backward, ActiveCwd)
                /\ Len(saved.history_backward) = Len(ActiveTab.history_backward) + 1
                /\ saved.cwd = [path |-> ActivatedPath(Cur), children |-> << >>,
                                curr_index |-> ActiveCwd.curr_index]
                /\ saved.history_forward = ActiveTab.history_forward
          /\ ~panicked' =>
                /\ tabs'[curr_tab_index + 1].history_backward =
                      Append(ActiveTab.history_backward, ActiveCwd)
                /\ tabs'[curr_tab_index + 1].cwd.path = ActivatedPath(Cur)]_vars

\* The settings file holds the State a directory activation left: the cwd is the entry
\* under the cursor of the directory on top of history_backward, not listed yet, with the
\* cursor of that directory, which is not 0
C8_Witness ==
    /\ Persisted.ok
    /\ TabInRange(Persisted.state)
    /\ LET saved == CurTab(Persisted.state) IN
          /\ saved.history_backward # << >>
          /\ LET out == Last(saved.history_backward) IN
                /\ out.curr_index < Len(out.children)
                /\ out.children[out.curr_index + 1].path = saved.cwd.path
                /\ saved.cwd.children = << >>
                /\ saved.cwd.curr_index = out.curr_index
                /\ out.curr_index > 0
    /\ Alive
    /\ ActiveCwd.children # << >>
    /\ ActiveCwd.path = CurTab(Persisted.state).cwd.path

(***************************************************************************)
(* C9: a render that resolves an Activate on a file leaves the State as it *)
(* was but for the activation flag, which is false again, and hands the    *)
(* entry's path to the launcher.                                           *)
(***************************************************************************)
C9_FileActivation ==
    [][(Draw /\ FileActivation(Cur)) =>
          /\ ~panicked'
          /\ Cur' = WithTab(Cur, [ActiveTab EXCEPT !.selected = FALSE])
          /\ launched' = <<LaunchCmd(ActivatedPath(Cur))>>]_vars

C9_Witness ==
    /\ Alive
    /\ launched # << >>
    /\ ~ActiveTab.selected
    /\ ActiveCwd.curr_index < Len(ActiveCwd.children)
    /\ launched[1] = LaunchCmd(ActiveCwd.children[ActiveCwd.curr_index + 1].path)
    /\ ~ActiveCwd.children[ActiveCwd.curr_index + 1].is_dir

(***************************************************************************)
(* C10: settings round trip: loading what save wrote for a reachable State *)
(* gives back that State (tabs, every cwd and history stack, active tab).  *)
(***************************************************************************)
C10_RoundTrip == ~panicked => LoadSettings(SaveSettings(Cur)) = Cur

\* A saved State with two tabs, a history entry and a listed directory, which is not the
\* default State
C10_Witness ==
    /\ Alive
    /\ settings = SaveSettings(Cur)
    /\ LoadSettings(settings) = Cur
    /\ Len(tabs) >= 2
    /\ \E i \in 1..Len(tabs) :
          /\ tabs[i].history_backward # << >>
          /\ Last(tabs[i].history_backward).children # << >>
    /\ Cur # DefaultState

(***************************************************************************)
(* C11: while at least one tab remains, curr_tab_index indexes an existing *)
(* tab (0 <= curr_tab_index < len(tabs)) in every state; a TabClose step   *)
(* removes exactly the active tab, keeps the other tabs in their order and *)
(* decrements curr_tab_index by one only when it fell out of range, never  *)
(* below 0.                                                                *)
(***************************************************************************)
C11_ActiveTabInRange ==
    /\ []((~panicked /\ tabs # << >>) => curr_tab_index \in 0..(Len(tabs) - 1))
    /\ [][(KeyTabClose /\ ~panicked') =>
            /\ Len(tabs') = Len(tabs) - 1
            /\ \A i \in 1..Len(tabs') :
                  tabs'[i] = tabs[IF i <= curr_tab_index THEN i ELSE i + 1]
            /\ curr_tab_index' =
                  IF curr_tab_index > Len(tabs') - 1 /\ curr_tab_index > 0
                  THEN curr_tab_index - 1
                  ELSE curr_tab_index]_vars

\* The last of two tabs was closed: the file still holds both tabs and the index 1 that
\* TabNext saved, the State holds the first tab alone and the index 0
C11_Witness ==
    /\ Alive
    /\ Persisted.ok
    /\ Len(Persisted.state.tabs) = 2
    /\ Persisted.state.curr_tab_index = 1
    /\ tabs = <<Persisted.state.tabs[1]>>
    /\ curr_tab_index = 0

(***************************************************************************)
(* C12: a TabNew step appends a copy of the active tab that is equal to it *)
(* (cwd, history_backward, history_forward), leaves the tabs that existed  *)
(* and curr_tab_index unchanged, and grows len(tabs) by exactly one.       *)
(***************************************************************************)
C12_TabNewAppendsCopy ==
    [][(KeyTabNew /\ ~panicked') =>
          /\ Len(tabs') = Len(tabs) + 1
          /\ \A i \in 1..Len(tabs) : tabs'[i] = tabs[i]
          /\ tabs'[Len(tabs')].cwd = ActiveTab.cwd
          /\ tabs'[Len(tabs')].history_backward = ActiveTab.history_backward
          /\ tabs'[Len(tabs')].history_forward = ActiveTab.history_forward
          /\ curr_tab_index' = curr_tab_index]_vars

\* A tab with a listed cwd and a history entry, and its copy, as TabNew saved them
C12_Witness ==
    /\ Alive
    /\ Len(tabs) = 2
    /\ tabs[2] = tabs[1]
    /\ tabs[1].history_backward # << >>
    /\ tabs[1].cwd.children # << >>
    /\ settings = SaveSettings(Cur)

(***************************************************************************)
(* C13: a TabPrev or TabNext step (Left/Right without Alt) moves           *)
(* curr_tab_index by exactly one when the target index is in range and     *)
(* leaves it alone otherwise (no wraparound), and leaves tabs unchanged; a *)
(* NavigateBack or NavigateForward step (the same keys with Alt) never     *)
(* changes curr_tab_index.                                                 *)
(***************************************************************************)
C13_TabStepsNoWrap ==
    [][~panicked' =>
          /\ KeyTabPrev =>
                /\ tabs' = tabs
                /\ curr_tab_index' =
                      IF curr_tab_index - 1 \in 0..(Len(tabs) - 1)
                      THEN curr_tab_index - 1 ELSE curr_tab_index
          /\ KeyTabNext =>
                /\ tabs' = tabs
                /\ curr_tab_index' =
                      IF curr_tab_index + 1 \in 0..(Len(tabs) - 1)
                      THEN curr_tab_index + 1 ELSE curr_tab_index
          /\ (KeyNavigateBack \/ KeyNavigateForward) =>
                curr_tab_index' = curr_tab_index]_vars

(***************************************************************************)
(* C14: a render whose read_dir fails leaves a State that differs from the *)
(* one a successful listing with zero entries leaves: the failure is not   *)
(* represented as an empty children.                                       *)
(***************************************************************************)
\* A Draw step that lists the cwd and whose read_dir returns Err
DrawListingFails ==
    /\ ~panicked
    /\ EmptyAtRender(Cur)
    /\ ReadErr \in ReadDir(DrawnPath(Cur))
    /\ \E checks \in OverflowChecks : Apply(DrawOutcome(Cur, ReadErr, checks))
    /\ back_from' = << >>

\* read_dir returned Ok with an iterator of no entries
ReadOkEmpty == [ok |-> TRUE, entries |-> << >>]

C14_ListingErrorVisible ==
    [][(DrawListingFails /\ ~panicked') =>
          /\ CurTab(Cur').cwd.children # << >>
          /\ \A checks \in OverflowChecks :
                Cur' # DrawOutcome(Cur, ReadOkEmpty, checks).state]_vars

(***************************************************************************)
(* C15: loading never fails: when the settings file is missing or does not *)
(* parse, the process starts (at construction and at every restart) in the *)
(* default State: exactly one tab at the root path with empty children,    *)
(* cursor 0, empty history_backward and history_forward, and               *)
(* curr_tab_index 0.                                                       *)
(***************************************************************************)
\* The State the claim spells out
SingleTabAtRoot ==
    /\ Len(tabs) = 1
    /\ tabs[1].cwd.path = Root
    /\ tabs[1].cwd.children = << >>
    /\ tabs[1].cwd.curr_index = 0
    /\ tabs[1].history_backward = << >>
    /\ tabs[1].history_forward = << >>
    /\ curr_tab_index = 0

C15_LoadDefaults ==
    /\ ~Persisted.ok => (~panicked /\ SingleTabAtRoot)
    /\ [][(New /\ ~Persisted.ok) => (~panicked' /\ SingleTabAtRoot')]_vars

\* The process has started on a settings file that does not parse
C15_Witness ==
    /\ settings = Garbage
    /\ ~Persisted.ok
    /\ ~panicked
    /\ SingleTabAtRoot

(***************************************************************************)
(* C16: an OpenInSystemExplorer or OpenShellHere key event and an update   *)
(* (Tick, Help) leave the State unchanged: tabs (every cwd, cursor,        *)
(* history stack and selected flag) and curr_tab_index; nothing is saved.  *)
(***************************************************************************)
C16_LaunchersAndUpdateFrame ==
    [][((KeyOpenInSystemExplorer \/ KeyOpenShellHere \/ Update) /\ ~panicked') =>
          UNCHANGED <<tabs, curr_tab_index, settings>>]_vars

\* A State the launchers and update run on that has something of everything they must
\* leave alone: two tabs, the second active, a listing, a moved cursor, a history entry
\* and a pending activation
C16_Witness ==
    /\ Alive
    /\ Len(tabs) = 2
    /\ curr_tab_index = 1
    /\ ActiveTab.selected
    /\ ActiveCwd.children # << >>
    /\ ActiveCwd.curr_index > 0
    /\ \E i \in 1..Len(tabs) : tabs[i].history_backward # << >>
    /\ ENABLED KeyOpenShellHere

(***************************************************************************)
(* C17: when a directory is listed.  A step that keeps the active tab in   *)
(* place and returns is examined.                                          *)
(***************************************************************************)
\* A step of the running process on the tab that is and stays the active one
SameTabStep ==
    /\ ~panicked
    /\ ~panicked'
    /\ TabInRange(Cur)
    /\ Len(tabs') = Len(tabs)
    /\ curr_tab_index' = curr_tab_index

\* A render with a non-empty children in hand does not list: the children stay as they are
NoRelisting ==
    (SameTabStep /\ ActiveCwd.children # << >> /\ ~DirActivation(Cur) /\ Draw)
        => ActiveCwd'.children = ActiveCwd.children

\* The render that resolves a directory activation enters the new cwd with an empty
\* children (so saved at line 275) and lists it itself
ActivateListsAfresh ==
    (SameTabStep /\ DirActivation(Cur) /\ Draw)
        => /\ EmptyAtRender(Cur)
           /\ CurTab(Persisted'.state).cwd.path = ActivatedPath(Cur)
           /\ CurTab(Persisted'.state).cwd.children = << >>

\* ParentDirectory enters the parent with an empty children: the next render lists it
ParentListsAfresh ==
    (SameTabStep /\ ActiveCwd'.path # ActiveCwd.path /\ KeyParentDirectory)
        => ActiveCwd'.children = << >>

\* C17 as claimed: the children are listed only when empty, and every navigation that
\* changes the cwd (Activate, ParentDirectory, NavigateBack, NavigateForward) leaves the
\* cwd it arrives at to be listed afresh, that is with an empty children
C17_ReturnListsAfresh ==
    [][/\ NoRelisting
       /\ ActivateListsAfresh
       /\ ParentListsAfresh
       /\ (SameTabStep /\ ActiveCwd'.path # ActiveCwd.path
              /\ (KeyNavigateBack \/ KeyNavigateForward))
             => ActiveCwd'.children = << >>]_vars

\* C17 amended: the children are listed only when empty; Activate of a directory and
\* ParentDirectory leave the cwd they arrive at to be listed afresh; NavigateBack and
\* NavigateForward restore the WorkingDirectory of the history stack as it was pushed,
\* with its cached children, so the return is listed only if those are empty
C17_HistoryReturnsCached ==
    [][/\ NoRelisting
       /\ ActivateListsAfresh
       /\ ParentListsAfresh
       /\ (SameTabStep /\ ActiveTab.history_backward # << >> /\ KeyNavigateBack)
             => ActiveCwd' = Last(ActiveTab.history_backward)
       /\ (SameTabStep /\ ActiveTab.history_forward # << >> /\ KeyNavigateForward)
             => ActiveCwd' = Last(ActiveTab.history_forward)]_vars

\* NavigateBack has returned from another directory to one whose listing is cached
C17_Witness ==
    /\ Alive
    /\ back_from # << >>
    /\ ~back_from[1].forward
    /\ back_from[1].cwd.path # ActiveCwd.path
    /\ ActiveCwd.children # << >>
    /\ ~EmptyAtRender(Cur)

(***************************************************************************)
(* C18: the render that resolves a directory activation and a              *)
(* ParentDirectory key event leave history_forward of the active tab       *)
(* unchanged, and a NavigateForward key event pops the last entry of       *)
(* history_forward and makes it the cwd, whatever was entered since that   *)
(* entry was pushed.                                                       *)
(***************************************************************************)
C18_DescentKeepsForward ==
    [][/\ (SameTabStep /\ DirActivation(Cur) /\ Draw)
             => ActiveTab'.history_forward = ActiveTab.history_forward
       /\ (SameTabStep /\ ActiveCwd'.path # ActiveCwd.path /\ KeyParentDirectory)
             => ActiveTab'.history_forward = ActiveTab.history_forward
       /\ (SameTabStep /\ ActiveTab.history_forward # << >> /\ KeyNavigateForward)
             => /\ ActiveCwd' = Last(ActiveTab.history_forward)
                /\ ActiveTab'.history_forward = Front(ActiveTab.history_forward)
                /\ ActiveTab'.history_backward =
                      Append(ActiveTab.history_backward, ActiveCwd)]_vars

\* After a NavigateBack out of a, a fresh descent into a and a NavigateForward: the cwd
\* is the a of before the descent, on top of history_backward lie the root and the a the
\* descent entered, and history_forward is used up
C18_Witness ==
    /\ Alive
    /\ Len(ActiveTab.history_backward) = 2
    /\ ActiveTab.history_forward = << >>
    /\ ActiveTab.history_backward[1].path = Root
    /\ ActiveTab.history_backward[2].path = ActiveCwd.path
    /\ ActiveTab.history_backward[2] # ActiveCwd
    /\ ActiveCwd.path # Root

(***************************************************************************)
(* C19: whenever a render finds a pending activation, the cursor of the    *)
(* active tab is a valid index of its children (cursor < len(children), so *)
(* children non-empty) and the render does not panic on children[cursor].  *)
(***************************************************************************)
C19_ActivationCursorValid ==
    [][(~panicked /\ TabInRange(Cur) /\ ActiveTab.selected /\ Draw)
          => (ActiveCwd.curr_index < Len(ActiveCwd.children) /\ ~panicked')]_vars

(***************************************************************************)
(* C20: tabs are independent: every step of the running process other than *)
(* TabNew and TabClose (key events, renders, updates) keeps the number of  *)
(* tabs and leaves every tab but the active one as it was (cwd, cursor,    *)
(* history_backward, history_forward).                                     *)
(***************************************************************************)
\* Every tab other than the active one is the same before and after the step
OtherTabsUnchanged ==
    /\ Len(tabs') = Len(tabs)
    /\ \A i \in 1..Len(tabs) : i # curr_tab_index + 1 => tabs'[i] = tabs[i]

C20_TabsIndependent ==
    [][~panicked' => (OtherTabsUnchanged \/ New \/ KeyTabNew \/ KeyTabClose)]_vars

\* Two tabs, the second active: the first still has the listed root at cursor 0 and no
\* history, the second has descended into a and has a history entry
C20_Witness ==
    /\ Alive
    /\ Len(tabs) = 2
    /\ curr_tab_index = 1
    /\ tabs[1].cwd.path = Root
    /\ tabs[1].cwd.children # << >>
    /\ tabs[1].cwd.curr_index = 0
    /\ tabs[1].history_backward = << >>
    /\ tabs[2].cwd.path # Root
    /\ tabs[2].history_backward # << >>

====
